---- MODULE Spec2Model ----
(***************************************************************************)
(* Noticias-FCT: the news kiosk variants noticias-v2.py (PyQt6),           *)
(* painel.py, painel1-sem-carregamento.py and                              *)
(* painel2-com-carregamento-atualizacoes.py (Kivy).                        *)
(*                                                                         *)
(* Text is a sequence of one-character strings.  SpecText applies the pure *)
(* text and URL functions to inputs drawn from bounded sets; Spec runs the *)
(* refresh / rotation state machines of the variants.                      *)
(***************************************************************************)
EXTENDS Integers, Sequences, FiniteSets, TLC

VARIABLES
    fn,        \* SpecText: the function under call
    arg,       \* SpecText: its text argument
    lim,       \* SpecText: its limit argument (0 where it has none)
    ret,       \* SpecText: its result, once returned
    prev,      \* SpecText: the result before, when the function was applied again
    pc,        \* SpecText: "call" before the function ran, "ret" after
    variant,   \* Spec: the program that runs: "v2", "painel", "painel1", "painel2";
               \* "v2overlay" is noticias-v2.py seen from FullScreenApp's idle overlay
    last_refresh,  \* history: the refresh the presentation layer handled last
    \* noticias-v2.py, NewsCarousel
    news_entries,  \* self.news_entries
    current_index, \* self.current_index
    timer_active,  \* self.timer is started
    title_label,   \* text of self.title_label
    desc_label,    \* text of self.desc_label
    link_label,    \* text of self.link_label
    qr_label,      \* pixmap of self.qr_label
    link_visible,  \* self.link_container is visible
    image_label,   \* self.image_label: its text or its pixmap
    current_image_downloader, \* self.current_image_downloader and its thread's state
    fetches,       \* the NewsDownloader threads started so far and their state
    eventq,        \* signals queued for the main thread's event loop
    applied,       \* history: the NewsDownloader threads whose results were applied, in order
    \* noticias-v2.py, FullScreenApp
    idle_time,       \* self.lastActivity.secsTo(QDateTime.currentDateTime()): the
                     \* clock is kept relative to self.lastActivity
    overlay_visible, \* self.overlay.isVisible()
    mouse_moved,     \* history: a MouseMove event has been handled
    \* painel.py, NewsCarousel
    locale_pt,     \* locale.setlocale(LC_TIME, 'pt_BR.UTF-8') succeeded
    news_items,    \* self.news_items
    slides,        \* self.slides: the NewsItem widgets of the carousel
    index,         \* self.index: the slide the carousel shows
    qr_files,      \* the files qrcodes/qr_<i>.png: what each encodes
    qr_textures,   \* per slide, what the QR image it loaded from its qr_code encodes
    \* painel1-sem-carregamento.py and painel2-com-carregamento-atualizacoes.py,
    \* NoticiasApp (index above is the index of its carousel)
    carousel,          \* the widgets of self.carousel; <<>> while it is None
    carousel_rotates,  \* a Clock interval calls load_next of self.carousel
    rotation_timers,   \* the Clock intervals calling load_next of some carousel
    current_widget,    \* what the window shows: "none", "loading" or "carousel"
    children,          \* painel2: the widgets NewsContainer holds, in the order added
    now,               \* the Clock's time, in seconds
    last_update,       \* self.last_update, in seconds; -1 while it is None
    scheduled          \* the Clock events pending for update_news, finish_update
                       \* and check_for_updates

textVars == <<fn, arg, lim, ret, prev, pc>>

displayVars ==
    <<title_label, desc_label, link_label, qr_label, link_visible, image_label>>

carouselVars ==
    <<news_entries, current_index, timer_active, title_label, desc_label, link_label,
      qr_label, link_visible, image_label, current_image_downloader, fetches, eventq,
      applied>>

overlayVars == <<idle_time, overlay_visible, mouse_moved>>

v2Vars == <<carouselVars, overlayVars>>

painelData == <<locale_pt, news_items, slides, qr_files, qr_textures>>

painelVars == <<locale_pt, news_items, slides, index, qr_files, qr_textures>>

kivyVars ==
    <<carousel, carousel_rotates, rotation_timers, current_widget, children, now, last_update,
      scheduled>>

vars ==
    <<fn, arg, lim, ret, prev, pc, variant, last_refresh, news_entries, current_index,
      timer_active, title_label, desc_label, link_label, qr_label, link_visible,
      image_label, current_image_downloader, fetches, eventq, applied, idle_time,
      overlay_visible, mouse_moved, locale_pt,
      news_items, slides, index, qr_files, qr_textures, carousel, carousel_rotates,
      rotation_timers, current_widget, children, now, last_update, scheduled>>

----------------------------------------------------------------------------
(* Bounds of the text inputs *)

MaxLen == 5

MaxLimit == 4

MaxPath == 1

\* longest HTML input, in symbols
MaxHtml == 4

\* how many entries the longest feed has beyond painel.py's cap
MaxExtra == 1

\* refreshes of painel.py in one run (the first and the periodic ones)
MaxRefreshes == 3

\* NewsDownloader threads started in one run (the first and the refreshes)
MaxFetches == 2

\* signals waiting in the main thread's event queue
MaxQueue == 2

MaxIdleExtra == 2

(* Program constants *)

TITLE_LIMIT == 80

DESC_LIMIT == 800

\* painel.py: the literals of carregar_noticias and extrair_conteudo_principal
PAINEL_MAX_NEWS == 5

PAINEL_TITLE_LIMIT == 80

PAINEL_MAX_PARAGRAPHS == 5

PAINEL_CONTENT_LIMIT == 1000

\* DESC_LIMIT of painel1-sem-carregamento.py and of
\* painel2-com-carregamento-atualizacoes.py
KIVY_DESC_LIMIT == 600

\* painel2-com-carregamento-atualizacoes.py
UPDATE_INTERVAL == 3600

IDLE_LIMIT == 300

\* the period of check_for_updates
CHECK_INTERVAL == 60

----------------------------------------------------------------------------
(* Characters and Python string primitives *)

SP == " "

Ellipsis == <<".", ".", ".">>

\* the n-fold repetition of character c
Rep(c, n) == [i \in 1..n |-> c]

\* s[:n] for n >= 0
Take(s, n) == SubSeq(s, 1, IF n < Len(s) THEN n ELSE Len(s))

\* s[n:] for n >= 0
Drop(s, n) == SubSeq(s, n + 1, Len(s))

\* s.startswith(p)
StartsWith(s, p) == Len(p) <= Len(s) /\ SubSeq(s, 1, Len(p)) = p

\* s.rfind(c): the 0-based index of the last c in s, -1 when there is none
RFind(s, c) ==
    LET hits == {i \in 1..Len(s) : s[i] = c}
    IN  IF hits = {} THEN -1
        ELSE (CHOOSE i \in hits : \A j \in hits : j <= i) - 1

\* the least element of a non-empty set of integers
Min(S) == CHOOSE x \in S : \A y \in S : x <= y

\* the index of the first element of s in set C, 0 when there is none
FirstIn(s, C) ==
    LET hits == {i \in 1..Len(s) : s[i] \in C}
    IN  IF hits = {} THEN 0 ELSE Min(hits)

\* the index of the first element of s not in set C, 0 when there is none
FirstNotIn(s, C) ==
    LET hits == {i \in 1..Len(s) : s[i] \notin C}
    IN  IF hits = {} THEN 0 ELSE Min(hits)

\* s.find(old) + 1: where the first occurrence of old starts, 0 when absent
Find(s, old) ==
    LET hits == {i \in 1..(Len(s) - Len(old) + 1) : SubSeq(s, i, i + Len(old) - 1) = old}
    IN  IF hits = {} THEN 0 ELSE Min(hits)

\* s.replace(old, ""): every non-overlapping occurrence of old, left to right
RECURSIVE Remove(_, _)
Remove(s, old) ==
    IF old = <<>> \/ Find(s, old) = 0 THEN s
    ELSE SubSeq(s, 1, Find(s, old) - 1) \o Remove(Drop(s, Find(s, old) + Len(old) - 1), old)

\* every sequence over S of length at most n
RECURSIVE SeqsUpTo(_, _)
SeqsUpTo(S, n) ==
    IF n = 0 THEN {<<>>}
    ELSE LET shorter == SeqsUpTo(S, n - 1)
         IN  shorter \cup {Append(s, c) : s \in {t \in shorter : Len(t) = n - 1}, c \in S}

----------------------------------------------------------------------------
(* truncate_text *)

truncate_text_first_space(text, limit) ==
    IF Len(text) <= limit THEN text
    ELSE LET truncated == Take(text, limit)
             hits == {i \in 2..Len(truncated) : truncated[i] = SP}
         IN  (IF hits # {}
              THEN Take(truncated, (CHOOSE i \in hits : \A j \in hits : i <= j) - 1)
              ELSE truncated) \o Ellipsis

truncate_text_no_cut(text, limit) ==
    IF Len(text) <= limit THEN text
    ELSE text \o Ellipsis

truncate_text_strict(text, limit) ==
    IF Len(text) < limit THEN text
    ELSE LET truncated == Take(text, limit)
             last_space == RFind(truncated, SP)
         IN  (IF last_space > 0 THEN Take(truncated, last_space) ELSE truncated)
             \o Ellipsis

truncate_text(text, limit) ==
    IF Len(text) <= limit THEN text
    ELSE LET truncated == Take(text, limit)
             last_space == RFind(truncated, SP)
         IN  (IF last_space > 0 THEN Take(truncated, last_space) ELSE truncated)
             \o Ellipsis

----------------------------------------------------------------------------
(* URLs *)

Http == <<"h", "t", "t", "p">>

Https == <<"h", "t", "t", "p", "s">>

SchemeSep == <<":", "/", "/">>

FctHost == <<"f", "c", "t", ".", "u", "f", "g", ".", "b", "r">>

CdnHost == <<"c", "d", "n", ".", "x">>

HttpFct == Http \o SchemeSep \o FctHost

HttpsFct == Https \o SchemeSep \o FctHost

\* NewsCarousel.BASE_URL
BASE_URL == HttpsFct

\* 'assets/placeholder.png', written as one symbol
Placeholder == <<"assets/placeholder.png">>

\* Python's None where a text is expected, written as a one-symbol text that
\* no input contains
None == <<"<None>">>

\* Python truthiness of an optional text
Truthy(s) == s # None /\ s # <<>>

\* urllib.parse.urljoin(base, url) for a base without a path and a url
\* without a scheme: an empty url gives the base, a network-path reference
\* takes the base's scheme, anything else is a path under the base's host
urljoin(base, url) ==
    IF url = <<>> THEN base
    ELSE IF StartsWith(url, <<"/", "/">>)
         THEN Take(base, RFind(base, ":") + 1) \o url
    ELSE IF Head(url) = "/" THEN base \o url
    ELSE base \o <<"/">> \o url

fix_image_url(url) ==
    IF \/ StartsWith(url, HttpFct \o Https \o <<":">>)
       \/ StartsWith(url, HttpsFct \o Https \o <<":">>)
    THEN Remove(Remove(url, HttpFct), HttpsFct)
    ELSE url

corrigir_url_imagem(url) ==
    IF ~Truthy(url) THEN Placeholder
    ELSE LET fixed == IF StartsWith(url, HttpFct \o Https \o SchemeSep)
                      THEN Remove(url, HttpFct)
                      ELSE url
         IN  IF ~(StartsWith(fixed, Http \o SchemeSep) \/ StartsWith(fixed, Https \o SchemeSep))
             THEN urljoin(BASE_URL, fixed)
             ELSE fixed

----------------------------------------------------------------------------
(* HTML.  An HTML text is a sequence of symbols: characters, and markup     *)
(* tokens written as one symbol each.  An image element with a source is    *)
(* ImgSrcOpen, the characters of the URL, ImgSrcClose.                      *)

NBSP == "&nbsp;"

Whitespace == {SP, "\n", "\t", NBSP}

ImgNoSrc == "<img>"

ImgSrcOpen == "<img src='"

ImgSrcClose == "'>"

RawTextOpen == {"<script>", "<style>"}

Tags ==
    {"<p>", "</p>", "<b>", "</b>", "<script>", "</script>", "<style>", "</style>",
     ImgNoSrc, ImgSrcOpen, ImgSrcClose}

\* a tag written with character references, "&lt;b&gt;": text to the parser
EscapedTag == "&lt;b&gt;"

\* the parser's decoding of the character references of a text node: the
\* characters "<b>", the same characters as the tag's
Decode(s) == [i \in 1..Len(s) |-> IF s[i] = EscapedTag THEN "<b>" ELSE s[i]]

\* the closing tag of a script or style element
ClosingOf(open) == IF open = "<script>" THEN "</script>" ELSE "</style>"

\* what follows the first occurrence of symbol close in s (nothing when absent)
SkipPast(s, close) ==
    IF FirstIn(s, {close}) = 0 THEN <<>> ELSE Drop(s, FirstIn(s, {close}))

\* what precedes the first occurrence of symbol close in s
UpTo(s, close) ==
    IF FirstIn(s, {close}) = 0 THEN s ELSE SubSeq(s, 1, FirstIn(s, {close}) - 1)

\* str.lstrip(), str.rstrip(), str.strip()
LStrip(s) ==
    IF FirstNotIn(s, Whitespace) = 0 THEN <<>> ELSE Drop(s, FirstNotIn(s, Whitespace) - 1)

RStrip(s) ==
    LET hits == {i \in 1..Len(s) : s[i] \notin Whitespace}
    IN  IF hits = {} THEN <<>>
        ELSE SubSeq(s, 1, CHOOSE i \in hits : \A j \in hits : j <= i)

Strip(s) == RStrip(LStrip(s))

\* re.sub(r'\s+', ' ', s): each run of whitespace becomes one space
RECURSIVE CollapseWhitespace(_)
CollapseWhitespace(s) ==
    IF FirstIn(s, Whitespace) = 0 THEN s
    ELSE SubSeq(s, 1, FirstIn(s, Whitespace) - 1) \o <<SP>>
         \o CollapseWhitespace(LStrip(Drop(s, FirstIn(s, Whitespace))))

\* BeautifulSoup(html, 'html.parser') followed by decompose() of every script
\* and style element: the text nodes left, in document order.  A text node
\* ends at the next markup token; a script or style element is skipped up to
\* its closing tag, an image's source up to the end of its tag.
RECURSIVE TextNodes(_)
TextNodes(s) ==
    IF FirstIn(s, Tags) = 0 THEN <<Decode(s)>>
    ELSE LET k == FirstIn(s, Tags)
             rest == IF s[k] \in RawTextOpen THEN SkipPast(Drop(s, k), ClosingOf(s[k]))
                     ELSE IF s[k] = ImgSrcOpen THEN SkipPast(Drop(s, k), ImgSrcClose)
                     ELSE Drop(s, k)
         IN  <<Decode(SubSeq(s, 1, k - 1))>> \o TextNodes(rest)

\* soup.get_text(separator=' ', strip=True) over those text nodes
RECURSIVE JoinStripped(_)
JoinStripped(nodes) ==
    IF nodes = <<>> THEN <<>>
    ELSE LET first == Strip(Head(nodes))
             rest == JoinStripped(Tail(nodes))
         IN  IF first = <<>> THEN rest
             ELSE IF rest = <<>> THEN first
             ELSE first \o <<SP>> \o rest

\* ' '.join(texts)
RECURSIVE JoinSpace(_)
JoinSpace(texts) ==
    IF texts = <<>> THEN <<>>
    ELSE IF Len(texts) = 1 THEN Head(texts)
    ELSE Head(texts) \o <<SP>> \o JoinSpace(Tail(texts))

\* clean_text without the strip of get_text and the final strip()
clean_text_no_strip(html_content) ==
    IF ~Truthy(html_content) THEN <<>>
    ELSE CollapseWhitespace(JoinSpace(TextNodes(html_content)))

\* clean_text taking one whitespace character off each end and no more
clean_text_strip_one(html_content) ==
    IF ~Truthy(html_content) THEN <<>>
    ELSE LET text == JoinSpace(TextNodes(html_content))
             left == IF text # <<>> /\ Head(text) \in Whitespace THEN Tail(text) ELSE text
         IN  IF left # <<>> /\ left[Len(left)] \in Whitespace
             THEN Take(left, Len(left) - 1) ELSE left

clean_text(html_content) ==
    IF ~Truthy(html_content) THEN <<>>
    ELSE Strip(CollapseWhitespace(JoinStripped(TextNodes(html_content))))

\* soup.find('img'): the first image element in document order, as
\* [found, has_src, src]; script and style contents are not markup
RECURSIVE FindImg(_)
FindImg(s) ==
    LET k == FirstIn(s, RawTextOpen \cup {ImgNoSrc, ImgSrcOpen})
    IN  IF k = 0 THEN [found |-> FALSE, has_src |-> FALSE, src |-> <<>>]
        ELSE IF s[k] \in RawTextOpen THEN FindImg(SkipPast(Drop(s, k), ClosingOf(s[k])))
        ELSE IF s[k] = ImgNoSrc THEN [found |-> TRUE, has_src |-> FALSE, src |-> <<>>]
        ELSE [found |-> TRUE, has_src |-> TRUE, src |-> UpTo(Drop(s, k), ImgSrcClose)]

extract_image(description) ==
    LET img_tag == FindImg(description)
    IN  IF img_tag.found /\ img_tag.has_src /\ img_tag.src # <<>>
        THEN fix_image_url(img_tag.src)
        ELSE None

----------------------------------------------------------------------------
(* The feed.  A raw entry is a record holding the fields the feed gave it;  *)
(* any field may be missing.  Feeds are sequences of names of the sample    *)
(* entries below.                                                           *)

ValidDate == <<"Wed, 02 Oct 2024 10:00:00 +0000">>

BadDate == <<"2024-10-02">>

Link1 == <<"l", "1">>

Link2 == <<"l", "2">>

\* 80 characters with a doubled space; an image with the doubled site prefix
EntryA ==
    [title |-> Rep("a", 39) \o <<SP, SP>> \o Rep("b", 39),
     description |-> <<"<p>", "a", SP, "\n", "b", "</p>", ImgSrcOpen>>
                     \o HttpFct \o Https \o SchemeSep \o CdnHost \o <<"/", "a">>
                     \o <<ImgSrcClose>>,
     link |-> Link1,
     published |-> ValidDate]

\* 85 characters, one space at position 41; a relative image; a date that
\* does not parse
EntryB ==
    [title |-> Rep("a", 40) \o <<SP>> \o Rep("b", 44),
     description |-> <<ImgSrcOpen, "/", "a", ImgSrcClose, "<p>", "b", "</p>">>,
     link |-> Link2,
     published |-> BadDate]

\* every field missing
EntryC == [f \in {} |-> <<>>]

\* 81 characters without a space; an image element without source; an empty link
EntryD ==
    [title |-> Rep("a", 81),
     description |-> <<"<p>", "c", "</p>", ImgNoSrc>>,
     link |-> <<>>,
     published |-> ValidDate]

\* a short title; paragraphs, one of them a credit line; no image; an empty
\* link; no date
EntryE ==
    [title |-> <<"a", SP, "b">>,
     description |-> <<"<p>", "Foto:", SP, "x", "</p>", "<p>", SP, "d", "<b>", "e", "</b>",
                       "</p>", "<p>", "f", "</p>">>,
     link |-> <<>>]

EntryNames == {"A", "B", "C", "D", "E"}

RawEntry(name) ==
    CASE name = "A" -> EntryA
      [] name = "B" -> EntryB
      [] name = "C" -> EntryC
      [] name = "D" -> EntryD
      [] OTHER -> EntryE

\* a feed longer than painel.py's cap
LongFeed == [i \in 1..(PAINEL_MAX_NEWS + MaxExtra) |-> IF i % 2 = 1 THEN "A" ELSE "B"]

Feeds ==
    {<<>>, <<"A">>, <<"B">>, <<"C">>, <<"D">>, <<"E">>, <<"A", "B">>, <<"B", "C">>, LongFeed}

\* entry.get(field, default)
Get(entry, field, default) ==
    IF field \in DOMAIN entry THEN entry[field] ELSE default

\* [f(x) for x in s]
MapSeq(s, F(_)) == [i \in 1..Len(s) |-> F(s[i])]

----------------------------------------------------------------------------
(* noticias-v2.py *)

\* an encoder that loses the end of its input
create_qr_code_lossy(url) == [payload |-> Take(url, Len(url) - 1)]

\* the pixmap create_qr_code(url) returns, as the payload a scanner reads
create_qr_code(url) == [payload |-> url]

NoPixmap == [payload |-> None]

\* one iteration of the loop of NewsDownloader.run
ProcessEntry(name) ==
    LET entry == RawEntry(name)
    IN  [title |-> truncate_text(clean_text(Get(entry, "title", <<>>)), TITLE_LIMIT),
         description |->
             truncate_text(clean_text(Get(entry, "description", <<>>)), DESC_LIMIT),
         link |-> Get(entry, "link", <<>>),
         image_url |-> extract_image(Get(entry, "description", <<>>))]

\* ProcessEntry of every sample entry, computed once
Processed == [name \in EntryNames |-> ProcessEntry(name)]

MsgLoadingNews == <<"Carregando noticias...">>

MsgLoadingImage == <<"Carregando imagem...">>

MsgNoNews == <<"Nao foi possivel carregar as noticias.">>

MsgNoImage == <<"Sem imagem disponivel">>

MsgImageFailed == <<"Nao foi possivel carregar a imagem">>

NoDownloader == [url |-> None, state |-> "none"]

NoRefresh == [id |-> 0, ok |-> TRUE, raised |-> FALSE, feed |-> <<>>]

ImageText(t) == [text |-> t, pixmap |-> None]

ImagePixmap(u) == [text |-> <<>>, pixmap |-> u]

\* FullScreenApp.__init__: the overlay hidden, lastActivity the current time
InitOverlay ==
    /\ idle_time = 0
    /\ overlay_visible = FALSE
    /\ mouse_moved = FALSE

\* NewsCarousel.__init__ and FullScreenApp.__init__: the widgets as built,
\* the first NewsDownloader started
InitV2 ==
    /\ news_entries = <<>>
    /\ current_index = 0
    /\ timer_active = FALSE
    /\ title_label = MsgLoadingNews
    /\ desc_label = <<>>
    /\ link_label = <<>>
    /\ qr_label = NoPixmap
    /\ link_visible = TRUE
    /\ image_label = ImageText(MsgLoadingImage)
    /\ current_image_downloader = NoDownloader
    /\ fetches = <<"running">>
    /\ eventq = <<>>
    /\ applied = <<>>
    /\ InitOverlay

\* the same widgets where noticias-v2.py is not the program that runs
IdleV2 ==
    /\ news_entries = <<>>
    /\ current_index = 0
    /\ timer_active = FALSE
    /\ title_label = <<>>
    /\ desc_label = <<>>
    /\ link_label = <<>>
    /\ qr_label = NoPixmap
    /\ link_visible = FALSE
    /\ image_label = ImageText(<<>>)
    /\ current_image_downloader = NoDownloader
    /\ fetches = <<>>
    /\ eventq = <<>>
    /\ applied = <<>>
    /\ InitOverlay

NewsReady(id, ok, feed, entries) ==
    [sig |-> "news_ready", from |-> id, ok |-> ok, feed |-> feed,
     entries |-> entries, pixmap |-> None]

ImageReady(pixmap) ==
    [sig |-> "image_ready", from |-> 0, ok |-> TRUE, feed |-> <<>>,
     entries |-> <<>>, pixmap |-> pixmap]

\* NewsDownloader.run, the feed parsed: every entry is processed and the list
\* is emitted; the signal is queued for the main thread
NewsDownloader_run(id) ==
    /\ variant = "v2"
    /\ UNCHANGED <<textVars, variant, overlayVars, painelVars, kivyVars>>
    /\ fetches[id] = "running"
    /\ Len(eventq) < MaxQueue
    /\ \E feed \in Feeds :
          eventq' = Append(eventq, NewsReady(id, TRUE, feed, [i \in 1..Len(feed) |-> Processed[feed[i]]]))
    /\ fetches' = [fetches EXCEPT ![id] = "finished"]
    /\ UNCHANGED <<news_entries, current_index, timer_active, displayVars,
                   current_image_downloader, applied, last_refresh>>

\* NewsDownloader.run, feedparser.parse raising: the except branch emits []
NewsDownloader_run_except(id) ==
    /\ variant = "v2"
    /\ UNCHANGED <<textVars, variant, overlayVars, painelVars, kivyVars>>
    /\ fetches[id] = "running"
    /\ Len(eventq) < MaxQueue
    /\ eventq' = Append(eventq, NewsReady(id, FALSE, <<>>, <<>>))
    /\ fetches' = [fetches EXCEPT ![id] = "finished"]
    /\ UNCHANGED <<news_entries, current_index, timer_active, displayVars,
                   current_image_downloader, applied, last_refresh>>

\* NewsCarousel.update_display on news_entries and current_index as they are
\* after the caller's assignments
update_display(entries, cur) ==
    IF entries = <<>>
    THEN UNCHANGED <<displayVars, current_image_downloader>>
    ELSE LET entry == entries[cur + 1]
         IN  /\ title_label' = entry.title
             /\ desc_label' = entry.description
             /\ IF Truthy(entry.link)
                THEN /\ link_label' = entry.link
                     /\ qr_label' = create_qr_code(entry.link)
                     /\ link_visible' = TRUE
                ELSE /\ link_visible' = FALSE
                     /\ UNCHANGED <<link_label, qr_label>>
             /\ IF Truthy(entry.image_url)
                THEN /\ image_label' = ImageText(MsgLoadingImage)
                     \* a running downloader is terminated; the new one replaces it
                     /\ current_image_downloader' =
                            [url |-> entry.image_url, state |-> "running"]
                ELSE /\ image_label' = ImageText(MsgNoImage)
                     /\ UNCHANGED current_image_downloader

\* on_news_ready without the reset of current_index
on_news_ready_keep_index ==
    /\ variant = "v2"
    /\ UNCHANGED <<textVars, variant, overlayVars, painelVars, kivyVars>>
    /\ eventq # <<>>
    /\ Head(eventq).sig = "news_ready"
    /\ news_entries' = Head(eventq).entries
    /\ eventq' = Tail(eventq)
    /\ applied' = Append(applied, Head(eventq).from)
    /\ last_refresh' = [id |-> Head(eventq).from, ok |-> Head(eventq).ok,
                        raised |-> ~Head(eventq).ok, feed |-> Head(eventq).feed]
    /\ timer_active' = (timer_active \/ Head(eventq).entries # <<>>)
    /\ UNCHANGED <<current_index, displayVars, current_image_downloader, fetches>>

\* NewsCarousel.on_news_ready, run by the event loop for the oldest queued signal
on_news_ready ==
    /\ variant = "v2"
    /\ UNCHANGED <<textVars, variant, overlayVars, painelVars, kivyVars>>
    /\ eventq # <<>>
    /\ Head(eventq).sig = "news_ready"
    /\ LET ev == Head(eventq)
       IN  /\ news_entries' = ev.entries
           /\ IF ev.entries # <<>>
              THEN /\ current_index' = 0
                   /\ update_display(ev.entries, 0)
                   /\ timer_active' = TRUE
              ELSE /\ title_label' = MsgNoNews
                   /\ UNCHANGED <<current_index, timer_active, desc_label, link_label,
                                  qr_label, link_visible, image_label,
                                  current_image_downloader>>
           /\ applied' = Append(applied, ev.from)
           /\ last_refresh' = [id |-> ev.from, ok |-> ev.ok, raised |-> ~ev.ok,
                               feed |-> ev.feed]
    /\ eventq' = Tail(eventq)
    /\ UNCHANGED fetches

\* ImageDownloader.run: the image fetched, or a null pixmap on any failure
ImageDownloader_run ==
    /\ variant = "v2"
    /\ UNCHANGED <<textVars, variant, overlayVars, painelVars, kivyVars>>
    /\ current_image_downloader.state = "running"
    /\ Len(eventq) < MaxQueue
    /\ \E got \in {current_image_downloader.url, None} :
          eventq' = Append(eventq, ImageReady(got))
    /\ current_image_downloader' = [current_image_downloader EXCEPT !.state = "finished"]
    /\ UNCHANGED <<news_entries, current_index, timer_active, displayVars, fetches,
                   applied, last_refresh>>

\* NewsCarousel.on_image_ready
on_image_ready ==
    /\ variant = "v2"
    /\ UNCHANGED <<textVars, variant, overlayVars, painelVars, kivyVars>>
    /\ eventq # <<>>
    /\ Head(eventq).sig = "image_ready"
    /\ image_label' = IF Head(eventq).pixmap # None
                      THEN ImagePixmap(Head(eventq).pixmap)
                      ELSE ImageText(MsgImageFailed)
    /\ eventq' = Tail(eventq)
    /\ UNCHANGED <<news_entries, current_index, timer_active, title_label, desc_label,
                   link_label, qr_label, link_visible, current_image_downloader,
                   fetches, applied, last_refresh>>

\* next_news advancing by two entries
next_news_skip ==
    /\ variant = "v2"
    /\ UNCHANGED <<textVars, variant, overlayVars, painelVars, kivyVars>>
    /\ timer_active
    /\ IF news_entries # <<>>
       THEN /\ current_index' = (current_index + 2) % Len(news_entries)
            /\ update_display(news_entries, (current_index + 2) % Len(news_entries))
       ELSE UNCHANGED <<current_index, displayVars, current_image_downloader>>
    /\ UNCHANGED <<news_entries, timer_active, fetches, eventq, applied, last_refresh>>

\* NewsCarousel.next_news, the rotation timer's timeout
next_news ==
    /\ variant = "v2"
    /\ UNCHANGED <<textVars, variant, overlayVars, painelVars, kivyVars>>
    /\ timer_active
    /\ IF news_entries # <<>>
       THEN /\ current_index' = (current_index + 1) % Len(news_entries)
            /\ update_display(news_entries, (current_index + 1) % Len(news_entries))
       ELSE UNCHANGED <<current_index, displayVars, current_image_downloader>>
    /\ UNCHANGED <<news_entries, timer_active, fetches, eventq, applied, last_refresh>>

\* FullScreenApp.refresh_news -> NewsCarousel.refresh_news, the update timer's
\* timeout: a new NewsDownloader is started, whatever the earlier one does
refresh_news ==
    /\ variant = "v2"
    /\ UNCHANGED <<textVars, variant, overlayVars, painelVars, kivyVars>>
    /\ Len(fetches) < MaxFetches
    /\ fetches' = Append(fetches, "running")
    /\ UNCHANGED <<news_entries, current_index, timer_active, displayVars,
                   current_image_downloader, eventq, applied, last_refresh>>


\* a second passes on the system clock QDateTime.currentDateTime() reads; the
\* model follows the idle time up to MaxIdleExtra seconds past the limit
clock_second ==
    /\ variant = "v2overlay"
    /\ idle_time < IDLE_LIMIT + MaxIdleExtra
    /\ idle_time' = idle_time + 1
    /\ UNCHANGED <<textVars, variant, last_refresh, carouselVars, overlay_visible,
                   mouse_moved, painelVars, kivyVars>>

\* FullScreenApp.eventFilter, installed on the application, on a MouseMove event
eventFilter ==
    /\ variant = "v2overlay"
    /\ idle_time' = 0
    /\ overlay_visible' = FALSE
    /\ mouse_moved' = TRUE
    /\ UNCHANGED <<textVars, variant, last_refresh, carouselVars, painelVars, kivyVars>>

\* FullScreenApp.mouseMoveEvent
mouseMoveEvent ==
    /\ variant = "v2overlay"
    /\ idle_time' = 0
    /\ overlay_visible' = FALSE
    /\ mouse_moved' = TRUE
    /\ UNCHANGED <<textVars, variant, last_refresh, carouselVars, painelVars, kivyVars>>

\* updateOverlayVisibility showing the overlay a second before the limit
updateOverlayVisibility_early ==
    /\ variant = "v2overlay"
    /\ overlay_visible' = (idle_time >= IDLE_LIMIT - 1)
    /\ UNCHANGED <<textVars, variant, last_refresh, carouselVars, idle_time,
                   mouse_moved, painelVars, kivyVars>>

\* FullScreenApp.updateOverlayVisibility, the idle timer's timeout
updateOverlayVisibility ==
    /\ variant = "v2overlay"
    /\ overlay_visible' = (idle_time >= IDLE_LIMIT)
    /\ UNCHANGED <<textVars, variant, last_refresh, carouselVars, idle_time,
                   mouse_moved, painelVars, kivyVars>>
----------------------------------------------------------------------------
(* painel.py *)

Markers == {"Texto:", "Foto:", "texto:", "foto:"}

\* the date as strftime('%d de %B de %Y as %H:%M') renders ValidDate
FormattedDate == <<"02 de October de 2024 as 10:00">>

\* NewsCarousel.formatar_data.  strptime reads the day and month names of the
\* locale in force: the feed's English names parse only when the pt_BR locale
\* could not be set.
\* whether strptime(data_str, '%a, %d %b %Y %H:%M:%S %z') returns
Parses(data_str, pt) == data_str = ValidDate /\ ~pt

\* formatar_data with an except branch that returns ''
formatar_data_drop(data_str, pt) ==
    IF Parses(data_str, pt) THEN FormattedDate ELSE <<>>

formatar_data(data_str, pt) ==
    IF Parses(data_str, pt) THEN FormattedDate ELSE data_str

\* element.get_text(): the characters of the content, markup left out
RECURSIVE ElementText(_)
ElementText(s) ==
    IF FirstIn(s, Tags) = 0 THEN Decode(s)
    ELSE LET k == FirstIn(s, Tags)
             rest == IF s[k] = ImgSrcOpen THEN SkipPast(Drop(s, k), ImgSrcClose)
                     ELSE Drop(s, k)
         IN  Decode(SubSeq(s, 1, k - 1)) \o ElementText(rest)

\* soup.find_all('p'): the contents of the p elements, in document order
RECURSIVE FindAllP(_)
FindAllP(s) ==
    LET k == FirstIn(s, {"<p>"})
    IN  IF k = 0 THEN <<>>
        ELSE <<UpTo(Drop(s, k), "</p>")>> \o FindAllP(SkipPast(Drop(s, k), "</p>"))

\* the filter of the list comprehension of extrair_conteudo_principal
KeepParagraph(t) == t # <<>> /\ \A i \in 1..Len(t) : t[i] \notin Markers

StrippedText(content) == Strip(ElementText(content))

\* the cut of conteudo in extrair_conteudo_principal
CutContent(conteudo) ==
    IF Len(conteudo) > PAINEL_CONTENT_LIMIT
    THEN Take(conteudo, PAINEL_CONTENT_LIMIT) \o Ellipsis
    ELSE conteudo

\* NewsCarousel.extrair_conteudo_principal: (conteudo, img_url), or the
\* KeyError of img_tag['src'] on an image element without source
extrair_conteudo_principal(html) ==
    LET img_tag == FindImg(html)
        texto_principal == SelectSeq(MapSeq(FindAllP(html), StrippedText), KeepParagraph)
    IN  [raises |-> img_tag.found /\ ~img_tag.has_src,
         img_url |-> IF img_tag.found THEN corrigir_url_imagem(img_tag.src) ELSE None,
         conteudo |-> CutContent(JoinSpace(Take(texto_principal, PAINEL_MAX_PARAGRAPHS)))]

\* the expression for titulo in carregar_noticias
CutTitle_keep(title) == title

CutTitle(title) ==
    IF Len(title) <= PAINEL_TITLE_LIMIT THEN title
    ELSE Take(title, PAINEL_TITLE_LIMIT) \o Ellipsis

Digits == <<"0", "1", "2", "3", "4", "5", "6", "7", "8", "9">>

\* os.path.join(self.qr_dir, f'qr_{news_id}.png')
QrPath(news_id) == <<"qrcodes/qr_", Digits[news_id + 1], ".png">>

\* whether the body of the loop of carregar_noticias raises on this entry:
\* the KeyError above, or the AttributeError of entrada.title / entrada.link
\* on an entry without that field
EntryRaises(name) ==
    \/ extrair_conteudo_principal(Get(RawEntry(name), "description", <<>>)).raises
    \/ "title" \notin DOMAIN RawEntry(name)
    \/ "link" \notin DOMAIN RawEntry(name)

\* the dict appended for an entry that does not raise; qr_ok tells whether
\* gerar_qr_code saved the image
PainelItem(name, idx, pt, qr_ok) ==
    LET entrada == RawEntry(name)
        parts == extrair_conteudo_principal(Get(entrada, "description", <<>>))
    IN  [title |-> CutTitle(entrada.title),
         content |-> parts.conteudo,
         image_source |-> IF Truthy(parts.img_url) THEN parts.img_url ELSE Placeholder,
         pub_date |-> IF "published" \in DOMAIN entrada
                      THEN formatar_data(entrada.published, pt) ELSE <<>>,
         qr_code |-> IF qr_ok THEN QrPath(idx) ELSE <<>>]

\* EntryRaises and PainelItem of every sample entry, computed once
PainelRaises == [name \in EntryNames |-> EntryRaises(name)]

PainelItems ==
    [name \in {n \in EntryNames : ~EntryRaises(n)} |->
        [idx \in 0..(PAINEL_MAX_NEWS - 1) |->
            [pt \in BOOLEAN |->
                [qr_ok \in BOOLEAN |-> PainelItem(name, idx, pt, qr_ok)]]]]

NoFile == None

InitPainel ==
    /\ locale_pt \in BOOLEAN
    /\ news_items = <<>>
    /\ slides = <<>>
    /\ index = 0
    /\ qr_files = [i \in 0..(PAINEL_MAX_NEWS - 1) |-> NoFile]
    /\ qr_textures = <<>>

IdlePainel ==
    /\ locale_pt = FALSE
    /\ news_items = <<>>
    /\ slides = <<>>
    /\ index = 0
    /\ qr_files = [i \in 0..(PAINEL_MAX_NEWS - 1) |-> NoFile]
    /\ qr_textures = <<>>

\* NewsCarousel.carregar_noticias with the feed parsed, followed by
\* _criar_slides.  Entries are handled in order, gerar_qr_code writing
\* qr_<idx>.png as it goes (qr_fails: the indexes at which it fails and
\* returns ''); an entry that raises ends the handler in its except branch,
\* news_items and the slides left as they were.
carregar_noticias ==
    /\ variant = "painel"
    /\ last_refresh.id < MaxRefreshes
    /\ \E feed \in Feeds, qr_fails \in {{}} \cup {{i} : i \in 0..(PAINEL_MAX_NEWS - 1)} :
          LET entries == Take(feed, PAINEL_MAX_NEWS)
              raising == {i \in 1..Len(entries) : PainelRaises[entries[i]]}
              done == IF raising = {} THEN Len(entries) ELSE Min(raising) - 1
              noticias_processadas ==
                  [i \in 1..done |->
                      PainelItems[entries[i]][i - 1][locale_pt][(i - 1) \notin qr_fails]]
          IN  /\ qr_files' = [i \in 0..(PAINEL_MAX_NEWS - 1) |->
                                 IF i + 1 <= done /\ i \notin qr_fails
                                 THEN RawEntry(entries[i + 1]).link
                                 ELSE qr_files[i]]
              /\ IF raising = {}
                 THEN /\ news_items' = noticias_processadas
                      /\ slides' = noticias_processadas
                      \* each NewsItem loads the image its qr_code names
                      /\ qr_textures' =
                             [i \in 1..done |->
                                 IF (i - 1) \in qr_fails THEN NoFile
                                 ELSE RawEntry(entries[i]).link]
                      /\ index' = 0
                 ELSE UNCHANGED <<news_items, slides, qr_textures, index>>
              /\ last_refresh' = [id |-> last_refresh.id + 1, ok |-> TRUE,
                                  raised |-> raising # {}, feed |-> feed]
    /\ UNCHANGED <<textVars, variant, v2Vars, kivyVars, locale_pt>>

\* NewsCarousel.carregar_noticias with feedparser.parse raising
carregar_noticias_except ==
    /\ variant = "painel"
    /\ last_refresh.id < MaxRefreshes
    /\ last_refresh' = [id |-> last_refresh.id + 1, ok |-> FALSE, raised |-> TRUE,
                        feed |-> <<>>]
    /\ UNCHANGED <<textVars, variant, v2Vars, kivyVars, painelVars>>

\* NewsCarousel.passar_slide_automatico; the carousel loops
passar_slide_automatico ==
    /\ variant = "painel"
    /\ IF slides # <<>>
       THEN index' = (index + 1) % Len(slides)
       ELSE UNCHANGED index
    /\ UNCHANGED <<textVars, variant, v2Vars, kivyVars, last_refresh, painelData>>

----------------------------------------------------------------------------
(* painel1-sem-carregamento.py and painel2-com-carregamento-atualizacoes.py *)

MsgNoNewsAvailable == <<"Nenhuma noticia disponivel no momento.">>

MsgLoadError == <<"Erro ao carregar noticias">>

NoTexture == [payload |-> None]

\* a Label added to the carousel in place of slides
MessageLabel(text) ==
    [kind |-> "label", title |-> text, description |-> <<>>, image |-> None,
     link |-> <<>>, qr |-> NoTexture]

\* NewsSlide.__init__: what the slide shows; image None stands for the
\* "Sem imagem disponível" label, qr NoTexture for a slide without link container
NewsSlide(name) ==
    LET entry == RawEntry(name)
        link == Get(entry, "link", <<>>)
    IN  [kind |-> "slide",
         title |-> truncate_text(clean_text(Get(entry, "title", <<>>)), TITLE_LIMIT),
         description |->
             truncate_text(clean_text(Get(entry, "description", <<>>)), KIVY_DESC_LIMIT),
         image |-> extract_image(Get(entry, "description", <<>>)),
         link |-> link,
         qr |-> IF Truthy(link) THEN create_qr_code(link) ELSE NoTexture]

\* NewsSlide of every sample entry, computed once
NewsSlides == [name \in EntryNames |-> NewsSlide(name)]

\* the positions of a feed at which create_qr_code may fail: none, or one
\* entry that has a link
QrFailures(feed) ==
    {0} \cup {i \in 1..Len(feed) : Truthy(Get(RawEntry(feed[i]), "link", <<>>))}

\* the try statement of build and of create_carousel: the widgets the carousel
\* ends up with.  parsed: feedparser.parse returned; qr_fail: the position of
\* the entry whose NewsSlide raises, 0 for none.
LoadSlides(parsed, feed, qr_fail) ==
    IF ~parsed THEN <<MessageLabel(MsgLoadError)>>
    ELSE IF feed = <<>> THEN <<MessageLabel(MsgNoNewsAvailable)>>
    ELSE IF qr_fail = 0 THEN [i \in 1..Len(feed) |-> NewsSlides[feed[i]]]
    ELSE [i \in 1..(qr_fail - 1) |-> NewsSlides[feed[i]]]
         \o <<MessageLabel(MsgLoadError)>>

\* Carousel.load_next with loop=True
LoadNext(widgets, i) == IF widgets = <<>> THEN i ELSE (i + 1) % Len(widgets)

IdleKivy ==
    /\ carousel = <<>>
    /\ carousel_rotates = FALSE
    /\ rotation_timers = 0
    /\ current_widget = "none"
    /\ children = <<>>
    /\ now = 0
    /\ last_update = -1
    /\ scheduled = {}

\* painel1: NoticiasApp before build runs
InitPainel1 == IdleKivy

\* painel1 NoticiasApp.build with the feed parsed
build ==
    /\ variant = "painel1"
    /\ current_widget = "none"
    /\ \E feed \in Feeds :
          \E qr_fail \in QrFailures(feed) :
             /\ carousel' = LoadSlides(TRUE, feed, qr_fail)
             /\ last_refresh' = [id |-> 1, ok |-> TRUE, raised |-> qr_fail # 0,
                                 feed |-> feed]
    /\ index' = 0
    /\ carousel_rotates' = TRUE
    /\ rotation_timers' = rotation_timers + 1
    /\ current_widget' = "carousel"
    /\ UNCHANGED children
    /\ UNCHANGED <<textVars, variant, v2Vars, painelData, now, last_update, scheduled>>

\* painel1 NoticiasApp.build with feedparser.parse raising
build_except ==
    /\ variant = "painel1"
    /\ current_widget = "none"
    /\ carousel' = LoadSlides(FALSE, <<>>, 0)
    /\ last_refresh' = [id |-> 1, ok |-> FALSE, raised |-> TRUE, feed |-> <<>>]
    /\ index' = 0
    /\ carousel_rotates' = TRUE
    /\ rotation_timers' = rotation_timers + 1
    /\ current_widget' = "carousel"
    /\ UNCHANGED children
    /\ UNCHANGED <<textVars, variant, v2Vars, painelData, now, last_update, scheduled>>

\* painel1 NoticiasApp.switch_slide
switch_slide ==
    /\ variant = "painel1"
    /\ carousel_rotates
    /\ index' = LoadNext(carousel, index)
    /\ UNCHANGED <<textVars, variant, v2Vars, painelData, last_refresh, carousel,
                   carousel_rotates, rotation_timers, current_widget, children, now,
                   last_update, scheduled>>

\* the Clock runs the pending event that is due first
Due(e) == e \in scheduled /\ \A o \in scheduled : e.at <= o.at

Event(cb, at) == [cb |-> cb, at |-> at]

\* BoxLayout.remove_widget: the widget leaves the children, if it is one
RemoveWidget(ch, w) ==
    LET at == {i \in 1..Len(ch) : ch[i] = w}
    IN  IF at = {} THEN ch
        ELSE SubSeq(ch, 1, Min(at) - 1) \o SubSeq(ch, Min(at) + 1, Len(ch))

\* NewsContainer.show_loading_screen: the children after the call
show_loading_screen(ch, cw) ==
    Append(IF cw # "none" THEN RemoveWidget(ch, cw) ELSE ch, "loading")

\* show_carousel without the removal of the current widget
show_carousel_keep(ch, cw) == Append(ch, "carousel")

\* NewsContainer.show_carousel: the children after the call
show_carousel(ch, cw) ==
    Append(IF cw # "none" THEN RemoveWidget(ch, cw) ELSE ch, "carousel")

\* painel2: NoticiasApp after __init__ and build
InitPainel2 ==
    /\ carousel = <<>>
    /\ carousel_rotates = FALSE
    /\ rotation_timers = 0
    /\ current_widget = "loading"
    /\ children = <<"header", "loading">>
    /\ now = 0
    /\ last_update = -1
    /\ scheduled = {Event("update_news", 2), Event("check_for_updates", CHECK_INTERVAL)}

\* painel2 NoticiasApp.update_news, called by the Clock
update_news ==
    /\ variant = "painel2"
    /\ \E e \in scheduled :
          /\ Due(e)
          /\ e.cb = "update_news"
          /\ now' = e.at
          /\ current_widget' = "loading"
          /\ children' = show_loading_screen(children, current_widget)
          /\ scheduled' = (scheduled \ {e}) \cup {Event("finish_update", e.at + 2)}
          /\ last_update' = e.at
    /\ UNCHANGED <<textVars, variant, v2Vars, painelVars, last_refresh, carousel,
                   carousel_rotates, rotation_timers>>

\* painel2 NoticiasApp.finish_update, create_carousel having parsed the feed
finish_update ==
    /\ variant = "painel2"
    /\ \E e \in scheduled :
          /\ Due(e)
          /\ e.cb = "finish_update"
          /\ now' = e.at
          /\ scheduled' = scheduled \ {e}
    /\ \E feed \in Feeds :
          \E qr_fail \in QrFailures(feed) :
             /\ carousel' = LoadSlides(TRUE, feed, qr_fail)
             /\ carousel_rotates' = (qr_fail = 0)
             /\ rotation_timers' = IF qr_fail = 0 THEN rotation_timers + 1
                                   ELSE rotation_timers
             /\ last_refresh' = [id |-> last_refresh.id + 1, ok |-> TRUE,
                                 raised |-> qr_fail # 0, feed |-> feed]
    /\ index' = 0
    /\ current_widget' = "carousel"
    /\ children' = show_carousel(children, current_widget)
    /\ UNCHANGED <<textVars, variant, v2Vars, painelData, last_update>>

\* painel2 NoticiasApp.finish_update, feedparser.parse raising in create_carousel
finish_update_except ==
    /\ variant = "painel2"
    /\ \E e \in scheduled :
          /\ Due(e)
          /\ e.cb = "finish_update"
          /\ now' = e.at
          /\ scheduled' = scheduled \ {e}
    /\ carousel' = LoadSlides(FALSE, <<>>, 0)
    /\ carousel_rotates' = FALSE
    /\ last_refresh' = [id |-> last_refresh.id + 1, ok |-> FALSE, raised |-> TRUE,
                        feed |-> <<>>]
    /\ index' = 0
    /\ current_widget' = "carousel"
    /\ children' = show_carousel(children, current_widget)
    /\ UNCHANGED <<textVars, variant, v2Vars, painelData, last_update, rotation_timers>>

\* check_for_updates without the test of the elapsed time
check_for_updates_always ==
    /\ variant = "painel2"
    /\ last_refresh.id < MaxRefreshes
    /\ \E e \in scheduled :
          /\ Due(e)
          /\ e.cb = "check_for_updates"
          /\ now' = e.at
          /\ IF last_update # -1
             THEN /\ current_widget' = "loading"
                  /\ children' = show_loading_screen(children, current_widget)
                  /\ scheduled' = (scheduled \ {e})
                                  \cup {Event("check_for_updates", e.at + CHECK_INTERVAL),
                                        Event("finish_update", e.at + 2)}
                  /\ last_update' = e.at
             ELSE /\ scheduled' = (scheduled \ {e})
                                  \cup {Event("check_for_updates", e.at + CHECK_INTERVAL)}
                  /\ UNCHANGED <<current_widget, children, last_update>>
    /\ UNCHANGED <<textVars, variant, v2Vars, painelVars, last_refresh, carousel,
                   carousel_rotates, rotation_timers>>

\* painel2 NoticiasApp.check_for_updates, called by its Clock interval; when
\* the update is due it runs update_news
check_for_updates ==
    /\ variant = "painel2"
    /\ last_refresh.id < MaxRefreshes
    /\ \E e \in scheduled :
          /\ Due(e)
          /\ e.cb = "check_for_updates"
          /\ now' = e.at
          /\ IF last_update # -1 /\ e.at - last_update >= UPDATE_INTERVAL
             THEN /\ current_widget' = "loading"
                  /\ children' = show_loading_screen(children, current_widget)
                  /\ scheduled' = (scheduled \ {e})
                                  \cup {Event("check_for_updates", e.at + CHECK_INTERVAL),
                                        Event("finish_update", e.at + 2)}
                  /\ last_update' = e.at
             ELSE /\ scheduled' = (scheduled \ {e})
                                  \cup {Event("check_for_updates", e.at + CHECK_INTERVAL)}
                  /\ UNCHANGED <<current_widget, children, last_update>>
    /\ UNCHANGED <<textVars, variant, v2Vars, painelVars, last_refresh, carousel,
                   carousel_rotates, rotation_timers>>

\* painel2: the interval scheduled by create_carousel calls carousel.load_next
load_next ==
    /\ variant = "painel2"
    /\ carousel_rotates
    /\ index' = LoadNext(carousel, index)
    /\ UNCHANGED <<textVars, variant, v2Vars, painelData, last_refresh, carousel,
                   carousel_rotates, rotation_timers, current_widget, children, now,
                   last_update, scheduled>>

----------------------------------------------------------------------------
(* SpecText: one call of a pure function on a bounded input *)

TextChars == {"a", "b", SP}

Texts == SeqsUpTo(TextChars, MaxLen)

NoRet == <<"<none>">>

\* URL inputs: absolute URLs, the feed's doubled-prefix URLs, relative ones
Paths == {<<"/">> \o Rep("a", n) : n \in 0..MaxPath}

Hosts == {FctHost, CdnHost}

AbsUrls ==
    {sch \o SchemeSep \o h \o p : sch \in {Http, Https}, h \in Hosts, p \in Paths \cup {<<>>}}

DoubledUrls == {pre \o u : pre \in {HttpFct, HttpsFct}, u \in AbsUrls}

RelUrls == Paths \cup {<<"a">>, <<"/", "/">> \o CdnHost \o <<"/", "a">>}

Urls == AbsUrls \cup DoubledUrls \cup RelUrls \cup {<<>>}

\* HTML inputs: text, whitespace of several kinds, a tag, a script element
\* (its content written x), a tag written with character references; and None
HtmlSyms == {"a", "x", SP, "\n", NBSP, "<b>", "<script>", "</script>", EscapedTag}

Htmls == SeqsUpTo(HtmlSyms, MaxHtml) \cup {None}

InitText ==
    /\ variant = "text"
    /\ last_refresh = NoRefresh
    /\ IdleV2
    /\ IdlePainel
    /\ IdleKivy
    /\ pc = "call"
    /\ ret = NoRet
    /\ prev = NoRet
    /\ \/ fn = "truncate_text" /\ arg \in Texts /\ lim \in 0..MaxLimit
       \/ fn \in {"fix_image_url", "corrigir_url_imagem"} /\ arg \in Urls /\ lim = 0
       \/ fn = "clean_text" /\ arg \in Htmls /\ lim = 0

CallTruncate ==
    /\ pc = "call" /\ fn = "truncate_text"
    /\ ret' = truncate_text(arg, lim)
    /\ pc' = "ret"
    /\ UNCHANGED <<fn, arg, lim, prev, variant, last_refresh, v2Vars, painelVars, kivyVars>>

CallFixImageUrl ==
    /\ pc = "call" /\ fn = "fix_image_url"
    /\ ret' = fix_image_url(arg)
    /\ pc' = "ret"
    /\ UNCHANGED <<fn, arg, lim, prev, variant, last_refresh, v2Vars, painelVars, kivyVars>>

CallCorrigirUrlImagem ==
    /\ pc = "call" /\ fn = "corrigir_url_imagem"
    /\ ret' = corrigir_url_imagem(arg)
    /\ pc' = "ret"
    /\ UNCHANGED <<fn, arg, lim, prev, variant, last_refresh, v2Vars, painelVars, kivyVars>>

CallCleanText ==
    /\ pc = "call" /\ fn = "clean_text"
    /\ ret' = clean_text(arg)
    /\ pc' = "ret"
    /\ UNCHANGED <<fn, arg, lim, prev, variant, last_refresh, v2Vars, painelVars, kivyVars>>

\* clean_text applied to its own result
CallCleanTextAgain ==
    /\ pc = "ret" /\ fn = "clean_text"
    /\ prev' = ret
    /\ ret' = clean_text(ret)
    /\ pc' = "again"
    /\ UNCHANGED <<fn, arg, lim, variant, last_refresh, v2Vars, painelVars, kivyVars>>

NextText ==
    \/ CallTruncate
    \/ CallFixImageUrl
    \/ CallCorrigirUrlImagem
    \/ CallCleanText
    \/ CallCleanTextAgain

SpecText == InitText /\ [][NextText]_vars

----------------------------------------------------------------------------
(* Spec: one of the programs runs *)

IdleText ==
    /\ fn = "none" /\ arg = <<>> /\ lim = 0 /\ ret = NoRet /\ prev = NoRet /\ pc = "idle"

Init ==
    /\ IdleText
    /\ last_refresh = NoRefresh
    /\ \/ variant = "v2" /\ InitV2 /\ IdlePainel /\ IdleKivy
       \/ variant = "painel" /\ InitPainel /\ IdleV2 /\ IdleKivy
       \/ variant = "painel1" /\ InitPainel1 /\ IdleV2 /\ IdlePainel
       \/ variant = "painel2" /\ InitPainel2 /\ IdleV2 /\ IdlePainel
       \/ variant = "v2overlay" /\ IdleV2 /\ IdlePainel /\ IdleKivy

Next ==
    \/ \E id \in 1..Len(fetches) : NewsDownloader_run(id)
    \/ \E id \in 1..Len(fetches) : NewsDownloader_run_except(id)
    \/ on_news_ready
    \/ ImageDownloader_run
    \/ on_image_ready
    \/ next_news
    \/ refresh_news
    \/ clock_second
    \/ eventFilter
    \/ mouseMoveEvent
    \/ updateOverlayVisibility
    \/ carregar_noticias
    \/ carregar_noticias_except
    \/ passar_slide_automatico
    \/ build
    \/ build_except
    \/ switch_slide
    \/ update_news
    \/ finish_update
    \/ finish_update_except
    \/ check_for_updates
    \/ load_next

Spec == Init /\ [][Next]_vars

\* the Kivy Clock runs every scheduled event once it is due
ClockFairness ==
    /\ WF_vars(update_news)
    /\ WF_vars(finish_update \/ finish_update_except)
    /\ WF_vars(check_for_updates)

SpecFair == Init /\ [][Next]_vars /\ ClockFairness

----------------------------------------------------------------------------
(* The slide set of the program that runs, whichever it is: the entries    *)
(* of the v2 carousel, the items of painel.py, the news slides of the      *)
(* carousel of painel1 and painel2.                                        *)
IsNewsSlide(w) == w.kind = "slide"

SlideTitles ==
    [i \in 1..Len(news_entries) |-> news_entries[i].title]
    \o [i \in 1..Len(news_items) |-> news_items[i].title]
    \o [i \in 1..Len(SelectSeq(carousel, IsNewsSlide)) |->
           SelectSeq(carousel, IsNewsSlide)[i].title]

\* the entries of the last refresh's feed that the variant consumes
Consumed ==
    IF variant = "painel" THEN Take(last_refresh.feed, PAINEL_MAX_NEWS)
    ELSE last_refresh.feed

(* C1: after a refresh that completed, the slide set is the sequence of    *)
(* items made from that refresh's feed entries, in feed order (all of them *)
(* in noticias-v2.py, the first 5 in painel.py), and what the display      *)
(* shows (description, visible link) belongs to the current item of that   *)
(* slide set: nothing of an earlier refresh is left.                       *)
C1_RefreshReplacesEverything ==
    (last_refresh.id > 0 /\ ~last_refresh.raised) =>
        /\ variant = "v2" =>
              /\ news_entries = [i \in 1..Len(Consumed) |-> Processed[Consumed[i]]]
              /\ desc_label # <<>> =>
                    /\ news_entries # <<>>
                    /\ desc_label = news_entries[current_index + 1].description
              /\ (link_visible /\ link_label # <<>>) =>
                    /\ news_entries # <<>>
                    /\ link_label = news_entries[current_index + 1].link
        /\ variant = "painel" =>
              /\ Len(news_items) = Len(Consumed)
              /\ \A i \in 1..Len(news_items) :
                    \E qr_ok \in BOOLEAN :
                       news_items[i] = PainelItems[Consumed[i]][i - 1][locale_pt][qr_ok]
              /\ slides = news_items
        /\ variant \in {"painel1", "painel2"} =>
              SelectSeq(carousel, IsNewsSlide)
                  = [i \in 1..Len(Consumed) |-> NewsSlides[Consumed[i]]]

(* C2: when the fetch or the parse of the feed fails in a refresh, the     *)
(* presentation layer is left with an empty slide set, in every variant.   *)
C2_FailureYieldsEmpty ==
    (last_refresh.id > 0 /\ ~last_refresh.ok) =>
        /\ news_entries = <<>>
        /\ news_items = <<>>
        /\ slides = <<>>
        /\ SelectSeq(carousel, IsNewsSlide) = <<>>

(* C3: a refresh whose feed was fetched and parsed produces one item per   *)
(* consumed entry, whichever fields the entries lack: an entry with        *)
(* missing or malformed fields never costs the other entries their items.  *)
(* (In painel1 and painel2 a refresh in which the QR code generation       *)
(* failed is left aside: that is not a failure of a field.)                *)
C3_OneItemPerEntry ==
    (/\ last_refresh.id > 0
     /\ last_refresh.ok
     /\ variant \in {"painel1", "painel2"} => ~last_refresh.raised) =>
        Len(news_entries) + Len(news_items) + Len(SelectSeq(carousel, IsNewsSlide))
            = Len(Consumed)

(* C4: the result of an older fetch is never applied after the result of   *)
(* a newer one: the fetches whose results were applied are applied in the  *)
(* order in which they were started.                                       *)
C4_NoStaleOverwrite ==
    \A i, j \in 1..Len(applied) : i < j => applied[i] < applied[j]

(* C5: when len(t) > L, truncate_text(t, L) is p + "..." with p a prefix   *)
(* of t[:L]; either p stops just before the last space of t[:L] (so the    *)
(* character of t after p is a space and no later space lies inside        *)
(* t[:L]), or t[:L] has no space after position 0 and p is the hard cut    *)
(* t[:L].  Nothing beyond t[:L] is consulted: the cut is the same for any  *)
(* text that agrees with t on its first L characters.                      *)
C5_Kept == Take(ret, Len(ret) - 3)

C5_WordSafeCut ==
    (pc = "ret" /\ fn = "truncate_text" /\ Len(arg) > lim) =>
        /\ Len(ret) >= 3
        /\ Drop(ret, Len(ret) - 3) = Ellipsis
        /\ Len(C5_Kept) <= lim
        /\ C5_Kept = Take(arg, Len(C5_Kept))
        /\ \/ /\ Len(C5_Kept) > 0
              /\ Len(C5_Kept) < lim
              /\ arg[Len(C5_Kept) + 1] = SP
              /\ \A i \in (Len(C5_Kept) + 2)..lim : arg[i] # SP
           \/ /\ Len(C5_Kept) = lim
              /\ \A i \in 2..lim : arg[i] # SP
        /\ \A u \in Texts :
              (Len(u) > lim /\ Take(u, lim) = Take(arg, lim)) => truncate_text(u, lim) = ret

C5_Witness ==
    /\ pc = "ret" /\ fn = "truncate_text"
    /\ arg = <<"a", "b", SP, "a", "b">> /\ lim = 4
    /\ ret = <<"a", "b", ".", ".", ".">>

(* C6: the result of truncate_text(t, L) has at most L + 3 characters.     *)
C6_LengthBound ==
    (pc = "ret" /\ fn = "truncate_text") => Len(ret) <= lim + 3

C6_Witness ==
    /\ pc = "ret" /\ fn = "truncate_text"
    /\ Len(arg) > lim /\ Len(ret) = lim + 3

(* C7: when len(t) <= L, truncate_text(t, L) is t itself.                  *)
C7_ShortUnchanged ==
    (pc = "ret" /\ fn = "truncate_text" /\ Len(arg) <= lim) => ret = arg

C7_Witness ==
    /\ pc = "ret" /\ fn = "truncate_text"
    /\ Len(arg) = lim /\ lim > 0 /\ ret = arg

(* C8: in every variant, the title of every produced item has at most 80  *)
(* characters, the configured title limit.                                 *)
C8_TitleWithinLimit ==
    \A i \in 1..Len(SlideTitles) : Len(SlideTitles[i]) <= TITLE_LIMIT

(* C8, as the code has it: in every variant, the title of every produced   *)
(* item has at most the title limit plus the three characters of the       *)
(* ellipsis, 83 characters.                                                *)
C8_TitleWithinLimitAndEllipsis ==
    \A i \in 1..Len(SlideTitles) : Len(SlideTitles[i]) <= TITLE_LIMIT + 3

C8_Witness ==
    \E i \in 1..Len(SlideTitles) :
       /\ Len(SlideTitles[i]) = TITLE_LIMIT + 3
       /\ Drop(SlideTitles[i], TITLE_LIMIT) = Ellipsis

(* C9: in painel.py a title longer than 80 characters is cut at a word     *)
(* boundary: the kept prefix, when the first 80 characters hold a space    *)
(* after the first character, stops just before a space of the title and   *)
(* not in the middle of a word.                                            *)
C9_PainelTitleCutAtWordBoundary ==
    (variant = "painel" /\ last_refresh.id > 0 /\ ~last_refresh.raised) =>
        \A i \in 1..Len(news_items) :
           LET raw == RawEntry(Consumed[i]).title
               kept == Take(news_items[i].title, Len(news_items[i].title) - 3)
           IN  (/\ Len(raw) > PAINEL_TITLE_LIMIT
                /\ \E k \in 2..PAINEL_TITLE_LIMIT : raw[k] = SP) =>
                   /\ kept = Take(raw, Len(kept))
                   /\ raw[Len(kept) + 1] = SP

(* C10: for an image URL made of the site prefix http://fct.ufg.br or      *)
(* https://fct.ufg.br immediately followed by an absolute URL U starting   *)
(* with https://, fix_image_url and corrigir_url_imagem return exactly U.  *)
C10_Inner ==
    IF StartsWith(arg, HttpFct \o Https \o SchemeSep) THEN Drop(arg, Len(HttpFct))
    ELSE IF StartsWith(arg, HttpsFct \o Https \o SchemeSep) THEN Drop(arg, Len(HttpsFct))
    ELSE None

C10_RepairYieldsInnerUrl ==
    (/\ pc = "ret"
     /\ fn \in {"fix_image_url", "corrigir_url_imagem"}
     /\ C10_Inner # None) => ret = C10_Inner

(* C11: every produced image reference is an absolute URL (it starts with  *)
(* http:// or https://) or the placeholder / the absent value, never a     *)
(* relative path: a relative source is resolved against                   *)
(* https://fct.ufg.br.                                                     *)
ImageRefs ==
    [i \in 1..Len(news_entries) |-> news_entries[i].image_url]
    \o [i \in 1..Len(news_items) |-> news_items[i].image_source]
    \o [i \in 1..Len(SelectSeq(carousel, IsNewsSlide)) |->
           SelectSeq(carousel, IsNewsSlide)[i].image]

IsAbsolute(url) ==
    StartsWith(url, Http \o SchemeSep) \/ StartsWith(url, Https \o SchemeSep)

C11_ImageRefsAbsolute ==
    \A i \in 1..Len(ImageRefs) :
       ImageRefs[i] \in {None, Placeholder} \/ IsAbsolute(ImageRefs[i])

(* C12: an entry whose description has no image element carrying a source *)
(* (no img at all, or an img without src) still gets its item, with the    *)
(* placeholder or the absent value as image reference: extraction does not *)
(* raise.  Feeds whose entries all carry a title and a link are looked at, *)
(* so that the image is the only field in question.                        *)
NoSourcedImage(name) ==
    LET img_tag == FindImg(Get(RawEntry(name), "description", <<>>))
    IN  ~(img_tag.found /\ img_tag.has_src /\ img_tag.src # <<>>)

C12_NoImageStillProduced ==
    (/\ last_refresh.id > 0
     /\ last_refresh.ok
     /\ \A i \in 1..Len(Consumed) : {"title", "link"} \subseteq DOMAIN RawEntry(Consumed[i])
     /\ variant \in {"painel1", "painel2"} => ~last_refresh.raised) =>
        /\ Len(ImageRefs) = Len(Consumed)
        /\ \A i \in 1..Len(Consumed) :
              NoSourcedImage(Consumed[i]) => ImageRefs[i] \in {None, Placeholder}

(* C13: for every input, clean_text returns text that contains no markup  *)
(* and no content of script elements, has no leading or trailing           *)
(* whitespace and no two consecutive whitespace characters, every          *)
(* whitespace run being one space; an empty or missing input gives the     *)
(* empty string.                                                           *)
InsideScript(s, j) ==
    \E o \in 1..(j - 1) :
       s[o] = "<script>" /\ \A k \in (o + 1)..(j - 1) : s[k] # "</script>"

C13_Normalised ==
    /\ (\A j \in 1..Len(arg) : arg[j] = "x" => InsideScript(arg, j)) =>
          \A i \in 1..Len(ret) : ret[i] # "x"
    /\ ret # <<>> => (Head(ret) \notin Whitespace /\ ret[Len(ret)] \notin Whitespace)
    /\ \A i \in 1..(Len(ret) - 1) : ~(ret[i] \in Whitespace /\ ret[i + 1] \in Whitespace)
    /\ \A i \in 1..Len(ret) : ret[i] \in Whitespace => ret[i] = SP
    /\ arg \in {<<>>, None} => ret = <<>>

C13_CleanTextNoMarkup ==
    (pc = "ret" /\ fn = "clean_text") =>
        /\ \A i \in 1..Len(ret) : ret[i] \notin Tags
        /\ C13_Normalised

(* C13, as the code has it: the same, except that the characters of a tag  *)
(* that the input wrote with character references are text and are         *)
(* returned decoded; no tag of the input itself is returned.               *)
C13_CleanTextNoInputMarkup ==
    (pc = "ret" /\ fn = "clean_text") =>
        /\ \A i \in 1..Len(ret) :
              ret[i] \in Tags =>
                 /\ ret[i] = "<b>"
                 /\ \E j \in 1..Len(arg) : arg[j] = EscapedTag /\ ~InsideScript(arg, j)
        /\ C13_Normalised

C13_Witness ==
    /\ pc = "ret" /\ fn = "clean_text"
    /\ arg = <<"<script>", "x", "</script>", "a">>
    /\ ret = <<"a">>

(* C14: clean_text is idempotent on text without markup: for an input      *)
(* without tags, applying clean_text to its result gives that result.      *)
C14_IdempotentOnTagFree ==
    (/\ pc = "again" /\ fn = "clean_text"
     /\ \A i \in 1..Len(arg) : arg[i] \notin Tags) => ret = prev

(* C14, as the code has it: the same for an input without tags and without *)
(* character references that write a tag.                                  *)
C14_IdempotentOnPlain ==
    (/\ pc = "again" /\ fn = "clean_text"
     /\ \A i \in 1..Len(arg) : arg[i] \notin Tags \cup {EscapedTag}) => ret = prev

C14_Witness ==
    /\ pc = "again" /\ fn = "clean_text"
    /\ arg = <<NBSP, "a", "\n", "a">>
    /\ prev = <<"a", SP, "a">>
    /\ ret = prev

(* C15: in every variant, an entry whose link is empty gets no QR image:   *)
(* no QR code is encoded from an empty link and none is shown on the       *)
(* entry's slide.                                                          *)
C15_EmptyLinkNoQr ==
    /\ (variant = "v2" /\ news_entries # <<>>
        /\ ~Truthy(news_entries[current_index + 1].link)
        /\ title_label = news_entries[current_index + 1].title) => ~link_visible
    /\ (variant = "painel" /\ last_refresh.id > 0 /\ ~last_refresh.raised) =>
          \A i \in 1..Len(news_items) :
             ~Truthy(RawEntry(Consumed[i]).link) =>
                /\ news_items[i].qr_code = <<>>
                /\ qr_files[i - 1] # <<>>
    /\ \A i \in 1..Len(carousel) :
          (carousel[i].kind = "slide" /\ ~Truthy(carousel[i].link)) =>
             carousel[i].qr = NoTexture

(* C16: a failure of the QR encoding for an entry stays with that entry:   *)
(* after a refresh whose feed was parsed and whose entries have their      *)
(* fields, every consumed entry has its item or slide, whether or not an   *)
(* encoding failed, and the carousel built by the refresh rotates.         *)
C16_QrFailureContained ==
    (/\ variant \in {"painel", "painel1", "painel2"}
     /\ last_refresh.id > 0
     /\ last_refresh.ok
     /\ variant = "painel" => ~last_refresh.raised) =>
        /\ Len(news_items) + Len(SelectSeq(carousel, IsNewsSlide)) = Len(Consumed)
        /\ variant \in {"painel1", "painel2"} => carousel_rotates

C18_DateFallsBackToRaw ==
    (variant = "painel" /\ last_refresh.id > 0 /\ ~last_refresh.raised) =>
        \A i \in 1..Len(news_items) :
           LET entrada == RawEntry(Consumed[i])
           IN  IF "published" \in DOMAIN entrada
               THEN /\ ~Parses(entrada.published, locale_pt) =>
                          news_items[i].pub_date = entrada.published
                    /\ Parses(entrada.published, locale_pt) =>
                          news_items[i].pub_date = FormattedDate
               ELSE news_items[i].pub_date = <<>>

C18_Witness ==
    /\ variant = "painel"
    /\ ~last_refresh.raised
    /\ Len(news_items) = 2
    /\ news_items[1].pub_date = ValidDate
    /\ news_items[2].pub_date = BadDate

(* C19: in noticias-v2.py at most one feed fetch is in flight at any time: *)
(* a refresh requested while a NewsDownloader runs starts no second one.   *)
C19_OneFetchInFlight ==
    Cardinality({id \in 1..Len(fetches) : fetches[id] = "running"}) <= 1

(* C20: in noticias-v2.py, whatever the interleaving of rotation ticks and *)
(* refresh results (a refresh with fewer entries or with none included),   *)
(* current_index is never negative and, when news_entries is not empty,    *)
(* it is the index of one of its entries.  (A tick on an empty slide set   *)
(* is next_news with its guard false: a step that changes nothing.)        *)
C20_IndexInRange ==
    variant = "v2" =>
        /\ current_index >= 0
        /\ news_entries # <<>> => current_index < Len(news_entries)

C20_Witness ==
    /\ variant = "v2"
    /\ applied = <<1, 2>>
    /\ news_entries = <<>>
    /\ timer_active
    /\ current_index = 1

(* C21: each rotation tick moves the current slide to the next one in     *)
(* order, wrapping from the last to the first, and the current slide       *)
(* changes in no other way except that a refresh which installs a slide    *)
(* set restarts the rotation at the first slide; so n consecutive ticks    *)
(* over n slides show every slide once and return to the starting slide.   *)
CurrentSlide == IF variant = "v2" THEN current_index ELSE index

SlideCount ==
    IF variant = "v2" THEN Len(news_entries)
    ELSE IF variant = "painel" THEN Len(slides)
    ELSE Len(carousel)

RotationTick == next_news \/ passar_slide_automatico \/ switch_slide \/ load_next

RECURSIVE Ticks(_, _, _)
Ticks(widgets, i, k) == IF k = 0 THEN i ELSE Ticks(widgets, LoadNext(widgets, i), k - 1)

C21_Step ==
    /\ (RotationTick /\ SlideCount > 0) =>
          /\ SlideCount' = SlideCount
          /\ CurrentSlide' = (CurrentSlide + 1) % SlideCount
    /\ (last_refresh' = last_refresh /\ CurrentSlide' # CurrentSlide) =>
          /\ SlideCount' = SlideCount
          /\ CurrentSlide' = (CurrentSlide + 1) % SlideCount
    /\ (last_refresh' # last_refresh) =>
          \/ CurrentSlide' = 0
          \/ /\ CurrentSlide' = CurrentSlide
             /\ \/ SlideCount' = 0
                \/ <<news_entries, slides>>' = <<news_entries, slides>>
    /\ \A i \in 1..Len(carousel) :
          /\ Ticks(carousel, i - 1, Len(carousel)) = i - 1
          /\ {Ticks(carousel, i - 1, k) : k \in 0..(Len(carousel) - 1)}
                = 0..(Len(carousel) - 1)

C21_RotationInOrder == [][C21_Step]_vars

C21_Witness ==
    /\ SlideCount >= 2
    /\ CurrentSlide = SlideCount - 1
    /\ last_refresh.id >= 2

(* C22: in noticias-v2.py a pixmap shown in the image area is the image of *)
(* the entry currently displayed: no ImageDownloader result of an earlier  *)
(* slide is applied after the carousel has moved on.                       *)
C22_ImageOfCurrentEntry ==
    (variant = "v2" /\ news_entries # <<>> /\ image_label.pixmap # None)
        => image_label.pixmap = news_entries[current_index + 1].image_url

(* C23: in painel.py, after any sequence of refreshes, completed or        *)
(* aborted, the file qrcodes/qr_<i>.png that the i-th displayed slide      *)
(* references encodes the link of the entry the slide was built from (the  *)
(* link loaded into the slide when it was created).                        *)
C23_QrFileMatchesSlide ==
    variant = "painel" =>
        \A i \in 1..Len(slides) :
            slides[i].qr_code # <<>> =>
                /\ slides[i].qr_code = QrPath(i - 1)
                /\ qr_files[i - 1] = qr_textures[i]

(* C24: at most one slide-rotation timer is active in an application: a   *)
(* refresh that builds a new slide set leaves no earlier rotation timer    *)
(* scheduled.  (noticias-v2.py and painel.py own a single timer object     *)
(* created once; painel1 and painel2 schedule an interval per build.)      *)
C24_OneRotationTimer == rotation_timers <= 1

(* C25: in painel2, check_for_updates starts a refresh only when at least *)
(* UPDATE_INTERVAL seconds have passed since last_update, and starting a   *)
(* refresh sets last_update; so after the initial refresh no two refreshes *)
(* start less than UPDATE_INTERVAL apart, and while the Clock keeps        *)
(* running its events a further refresh is always eventually started (up   *)
(* to the MaxRefreshes refreshes the model follows).                       *)
RefreshesStarted ==
    last_refresh.id + (IF current_widget = "loading" /\ last_update # -1 THEN 1 ELSE 0)

C25_Step ==
    variant = "painel2" =>
        /\ (check_for_updates /\ RefreshesStarted' # RefreshesStarted) =>
              /\ last_update # -1
              /\ now' - last_update >= UPDATE_INTERVAL
        /\ (RefreshesStarted' > RefreshesStarted) =>
              /\ last_update' = now'
              /\ Event("finish_update", now' + 2) \in scheduled'
        /\ (last_update' # last_update) =>
              /\ RefreshesStarted' = RefreshesStarted + 1
              /\ last_update = -1 \/ last_update' - last_update >= UPDATE_INTERVAL

C25_RefreshEveryInterval ==
    /\ [][C25_Step]_vars
    /\ \A k \in 0..(MaxRefreshes - 1) :
          (variant = "painel2" /\ RefreshesStarted = k)
              ~> (RefreshesStarted = k + 1)

C25_Witness ==
    /\ variant = "painel2"
    /\ current_widget = "loading"
    /\ last_refresh.id = 2
    /\ last_update >= 2 * UPDATE_INTERVAL

(* C26: in painel2 every update_news shows the loading screen and is      *)
(* eventually followed by finish_update replacing it with a newly built    *)
(* carousel, also when the feed is empty or the fetch fails; at all times  *)
(* NewsContainer holds the header and exactly one current widget, the      *)
(* loading screen or a carousel.                                           *)
C26_Step ==
    variant = "painel2" =>
        /\ (RefreshesStarted' > RefreshesStarted) => current_widget' = "loading"
        /\ (current_widget = "loading" /\ current_widget' = "carousel") =>
              /\ finish_update \/ finish_update_except
              /\ last_refresh'.id = last_refresh.id + 1
              /\ carousel' # <<>>
        /\ children' = <<"header", current_widget'>>
        /\ current_widget' \in {"loading", "carousel"}

C26_LoadingAlwaysReplaced ==
    /\ (variant = "painel2" => children = <<"header", current_widget>>)
    /\ [][C26_Step]_vars
    /\ (variant = "painel2" /\ current_widget = "loading")
          ~> (current_widget = "carousel")

C26_Witness ==
    /\ variant = "painel2"
    /\ current_widget = "carousel"
    /\ children = <<"header", "carousel">>
    /\ last_refresh.id = 2
    /\ ~last_refresh.ok

(* C27: in noticias-v2.py the idle check makes the overlay visible only    *)
(* when at least 300 seconds have passed since the last mouse movement,    *)
(* any mouse movement resets the idle time and hides the overlay at once,  *)
(* and so the overlay is never visible while the last mouse movement is    *)
(* less than 300 seconds old.                                              *)
C27_Step ==
    /\ (~overlay_visible /\ overlay_visible') =>
          /\ updateOverlayVisibility
          /\ idle_time >= IDLE_LIMIT
    /\ (eventFilter \/ mouseMoveEvent) =>
          /\ idle_time' = 0
          /\ ~overlay_visible'

C27_OverlayOnlyWhenIdle ==
    /\ [](overlay_visible => idle_time >= IDLE_LIMIT)
    /\ [][C27_Step]_vars

C27_Witness ==
    /\ variant = "v2overlay"
    /\ mouse_moved
    /\ overlay_visible
    /\ idle_time = IDLE_LIMIT

====
